---- MODULE Spec2Model ----
(***************************************************************************)
(* Model of the CSV ingestion core of kerala-map-standalone:               *)
(*   - DataLoadingManager (dataLoadingManager.ts): the loading state       *)
(*     store, its listeners, the cache and loadCSVData's retry loop;       *)
(*   - parseCSV / parseCSVLine (csvParser.ts).                             *)
(* Spec    is the loader: loadCSVData calls with their retries, clearCache,*)
(*         clearAllCaches and subscribers that may throw.                  *)
(* SpecSub is the pub/sub side: subscribe, the returned unsubscribe        *)
(*         closures, and the state changes published to the listeners.     *)
(* SpecCSV is the parser: Init draws a text and an option setting, the     *)
(*         actions apply parseCSV and the tokenizer round trip to it.      *)
(***************************************************************************)
EXTENDS Integers, Sequences, FiniteSets, TLC

VARIABLES
  loadingStates,  \* Map<string, DataLoadingState>: a function on a subset of Sources
  dataCache,      \* Map<string, any>: a function on a subset of Sources (the cache keys)
  listeners,      \* Map<string, Set<listener>>: per source, the Set in insertion order
  unsubs,         \* the unsubscribe closures returned so far, by subscribe call
  inflight,       \* the loadCSVData calls suspended at an await
  lastOp,         \* history: the operation (or resumed step) that ran last
  published,      \* history: the setLoadingState calls of the last step
  csvText,        \* parser input: the text, a sequence of characters
  csvOpts,        \* parser input: the CSVParseOptions
  csvOut,         \* parser output of the last parser action
  moduleCaches    \* acVoteShareDataCache and mandalVoteShareDataCache, by dataset

vars == <<loadingStates, dataCache, listeners, unsubs, inflight, lastOp,
          published, csvText, csvOpts, csvOut, moduleCaches>>

loaderVars == <<loadingStates, dataCache, listeners, unsubs, inflight, lastOp,
                published>>

csvVars == <<csvText, csvOpts, csvOut>>

----------------------------------------------------------------------------
(* Bounds of the loader model *)

\* loadCSVData calls that may be suspended at the same time
MaxInflight == 2
\* largest value of the retries option
MaxRetries == 2
\* subscribe calls made in one behaviour
MaxSubs == 2

Sources == {"s1", "s2"}
Data == {"d1", "d2"}
Fns == {"f1", "f2"}
\* listeners that may throw when they are called
Throwers == {"f2"}
Retries == 0..MaxRetries

Null == "null"
Now == "date"
EmptyData == "{}"

\* error.message of what an attempt can throw
\* fetch rejects: a transport error, or the abort of the timeout timer
AbortMsg == "The operation was aborted"
HttpMsg == "HTTP 500: Internal Server Error"
EmptyMsg == "Empty CSV file received"
ParserMsg == "row parser failed"
ListenerMsg == "listener failed"
\* nothing was thrown
NoError == "none"

\* what parseCSV reports for the fetched document
ParseDiags == {<<>>, <<"Row 3: Expected 2 columns, got 1">>}

----------------------------------------------------------------------------
(* The loading state store *)

IdleState ==
  [isLoading |-> FALSE, isLoaded |-> FALSE, error |-> Null, lastUpdated |-> Null]

\* mutant: the update raises isLoading and leaves the other fields
LoadingUpdateFlagOnly == [isLoading |-> TRUE]

LoadingUpdate ==
  [isLoading |-> TRUE, isLoaded |-> FALSE, error |-> Null, lastUpdated |-> Null]

LoadedUpdate ==
  [isLoading |-> FALSE, isLoaded |-> TRUE, error |-> Null, lastUpdated |-> Now]

\* mutant: the update sets the message and leaves the other fields
ErrorUpdateMessageOnly(msg) == [error |-> msg]

ErrorUpdate(msg) ==
  [isLoading |-> FALSE, isLoaded |-> FALSE, error |-> msg, lastUpdated |-> Null]

getLoadingState(ls, dataSource) ==
  IF dataSource \in DOMAIN ls THEN ls[dataSource] ELSE IdleState

\* { ...currentState, ...state }
MergeState(cur, upd) ==
  [f \in DOMAIN cur |-> IF f \in DOMAIN upd THEN upd[f] ELSE cur[f]]

\* mutant: an entry that exists is kept
MapSetIfAbsent(m, k, v) ==
  IF k \in DOMAIN m THEN m ELSE [x \in DOMAIN m \cup {k} |-> IF x = k THEN v ELSE m[x]]

MapSet(m, k, v) == [x \in DOMAIN m \cup {k} |-> IF x = k THEN v ELSE m[x]]

\* mutant: the entry stays
MapDeleteNothing(m, k) == m

MapDelete(m, k) == [x \in DOMAIN m \ {k} |-> m[x]]

EmptyMap == [x \in {} |-> Null]

\* the listener functions of a source's Set, in insertion order
FnsOf(lst, dataSource) ==
  [i \in 1..Len(lst[dataSource]) |-> lst[dataSource][i].fn]

\* mutant: the listeners are visited last subscribed first
NotifyTargetsReversed(lst, dataSource) ==
  [i \in 1..Len(lst[dataSource]) |->
     lst[dataSource][Len(lst[dataSource]) + 1 - i].fn]

\* the listeners a forEach over the Set visits
NotifyTargets(lst, dataSource) == FnsOf(lst, dataSource)

\* listeners.forEach(listener => listener(newState)): every listener in
\* order, or the listeners up to one that throws
ForEachRuns(fs) ==
  {[called |-> fs, threw |-> FALSE]} \cup
  {[called |-> SubSeq(fs, 1, i), threw |-> TRUE] :
     i \in {j \in 1..Len(fs) : fs[j] \in Throwers}}

\* setLoadingState: the possible runs, each with the map it leaves
setLoadingState(ls, lst, dataSource, upd) ==
  LET newState == MergeState(getLoadingState(ls, dataSource), upd)
  IN  {[ls |-> MapSet(ls, dataSource, newState),
        pub |-> [src |-> dataSource, state |-> newState,
                 subs |-> FnsOf(lst, dataSource),
                 called |-> r.called, threw |-> r.threw]] :
         r \in ForEachRuns(NotifyTargets(lst, dataSource))}

isDataLoaded(ls, dataSource) ==
  LET state == getLoadingState(ls, dataSource)
  IN  state.isLoaded /\ state.error = Null

----------------------------------------------------------------------------
(* loadCSVData *)

NoResult == [data |-> "none", errors |-> <<>>, warnings |-> <<>>]

NoCall == [pc |-> "free"]

\* an operation other than a completed load
OpRecord(op, dataSource, outcome) ==
  [op |-> op, arg |-> dataSource, step |-> "none", call |-> NoCall,
   outcome |-> outcome, result |-> NoResult, id |-> 0, removedBy |-> 0]

CacheHit(cache, dataSource, cacheKey) == cacheKey \in DOMAIN cache

\* mutant: the cache hit forgets its warning
HitResultSilent(cachedData) ==
  [data |-> cachedData, errors |-> <<>>, warnings |-> <<>>]

HitResult(cachedData) ==
  [data |-> cachedData, errors |-> <<>>, warnings |-> <<"Data loaded from cache">>]

TerminalResult(dataSource, retries, errorMessage) ==
  [data |-> EmptyData,
   errors |-> <<"Failed to load " \o dataSource \o " after " \o ToString(retries)
                \o " attempts: " \o errorMessage>>,
   warnings |-> <<>>]

FallThroughResult(dataSource) ==
  [data |-> EmptyData, errors |-> <<"Failed to load " \o dataSource>>,
   warnings |-> <<>>]

ParseWarning(diags) ==
  IF Len(diags) > 0
  THEN <<"CSV parsing completed with " \o ToString(Len(diags)) \o " errors">>
  ELSE <<>>

\* mutant: the data is stored under the source's name
StoreKeyIsSource(dataSource, cacheKey) == dataSource

\* this.dataCache.set(cacheKey, data): the key the data is stored under
StoreKey(dataSource, cacheKey) == cacheKey

\* mutant: the first failure is taken for the last
IsFinalAttemptFirst(attempt, retries) == attempt = 1

\* attempt === retries
IsFinalAttempt(attempt, retries) == attempt = retries

\* mutant: the next attempt is not delayed
BackoffDelayNone(attempt) == 0

\* 1000 * attempt
BackoffDelay(attempt) == 1000 * attempt

FreeSlots == {i \in 1..MaxInflight : inflight[i].pc = "free"}

\* the step of a call is over: it returned, rejected or is suspended again
Finish(slot, step, call, outcome, result, ls, cache, pubs) ==
  /\ loadingStates' = ls
  /\ dataCache' = cache
  /\ published' = pubs
  /\ inflight' = [inflight EXCEPT ![slot] =
                    IF outcome = "pending" THEN call ELSE NoCall]
  /\ lastOp' = [OpRecord("load", call.src, outcome)
                  EXCEPT !.step = step,
                         !.call = IF outcome = "pending"
                                  THEN [pc |-> call.pc, src |-> call.src,
                                        key |-> call.key,
                                        thrown |-> call.thrown,
                                        startLoaded |-> call.startLoaded]
                                  ELSE call,
                         !.result = result]
  /\ UNCHANGED <<listeners, unsubs, csvVars, moduleCaches>>

\* history: the suspended calls that were started for cacheKey
InFlightFor(cacheKey) ==
  {i \in 1..MaxInflight : inflight[i].pc # "free" /\ inflight[i].key = cacheKey}

\* history: no entry was overwritten
NoEntry == "none"

\* history: the entry a call that was started during another call for the
\* same cacheKey overwrites at line 165
Overwritten(call, cache) ==
  IF call.raced /\ call.key \in DOMAIN cache THEN cache[call.key] ELSE NoEntry

\* the locals of a call that starts, and its history
NewCall(dataSource, cacheKey, retries) ==
  [pc |-> "fetch", src |-> dataSource, key |-> cacheKey,
   retries |-> retries, attempt |-> 1, fetches |-> 0,
   errors |-> <<>>, warnings |-> <<>>,
   hit |-> FALSE,
   startLoaded |-> isDataLoaded(loadingStates, dataSource),
   thrown |-> NoError, diags |-> <<>>,
   raced |-> InFlightFor(cacheKey) # {}, found |-> NoEntry]

\* lines 87-122: the synchronous part of a call, up to the first fetch
LoadStart(dataSource, cacheKey, retries) ==
  /\ FreeSlots # {}
  /\ LET slot == CHOOSE i \in FreeSlots : \A j \in FreeSlots : i <= j
         call == NewCall(dataSource, cacheKey, retries)
     IN  IF CacheHit(dataCache, dataSource, cacheKey)
         THEN \E r \in setLoadingState(loadingStates, listeners, dataSource,
                                       LoadedUpdate) :
                Finish(slot, "start", [call EXCEPT !.pc = "done", !.hit = TRUE],
                       IF r.pub.threw THEN "rejected" ELSE "returned",
                       IF r.pub.threw THEN NoResult
                                      ELSE HitResult(dataCache[cacheKey]),
                       r.ls, dataCache, <<r.pub>>)
         ELSE \E r \in setLoadingState(loadingStates, listeners, dataSource,
                                       LoadingUpdate) :
                IF r.pub.threw
                THEN Finish(slot, "start", [call EXCEPT !.pc = "done"], "rejected",
                            NoResult, r.ls, dataCache, <<r.pub>>)
                ELSE IF 1 <= retries
                THEN Finish(slot, "start", [call EXCEPT !.fetches = 1], "pending",
                            NoResult, r.ls, dataCache, <<r.pub>>)
                ELSE Finish(slot, "start", [call EXCEPT !.pc = "done"], "returned",
                            FallThroughResult(dataSource), r.ls, dataCache,
                            <<r.pub>>)

\* lines 183-205: the catch block of an attempt
Catch(slot, step, call, errorMessage, ls, cache, pubs) ==
  LET c == [call EXCEPT !.thrown = errorMessage]
  IN  IF IsFinalAttempt(c.attempt, c.retries)
      THEN \E r \in setLoadingState(ls, listeners, c.src,
                                    ErrorUpdate(errorMessage)) :
             Finish(slot, step, [c EXCEPT !.pc = "done"],
                    IF r.pub.threw THEN "rejected" ELSE "returned",
                    IF r.pub.threw THEN NoResult
                    ELSE TerminalResult(c.src, c.retries, errorMessage),
                    r.ls, cache, Append(pubs, r.pub))
      ELSE Finish(slot, step, [c EXCEPT !.pc = "backoff"], "pending", NoResult,
                  ls, cache, pubs)

\* lines 129-141: await fetch(...) settles: the response has a success
\* status ("ok"), or the attempt throws with the message res
FetchDone(slot, res) ==
  /\ inflight[slot].pc = "fetch"
  /\ LET call == inflight[slot]
     IN  IF res = "ok"
         THEN Finish(slot, "fetch", [call EXCEPT !.pc = "text"], "pending",
                     NoResult, loadingStates, dataCache, <<>>)
         ELSE Catch(slot, "fetch", call, res, loadingStates, dataCache, <<>>)

\* a response body: blank, or a document with the diagnostics parseCSV
\* reports for it and what the row parser makes of it (a value, or it throws)
BlankBody == [blank |-> TRUE, diags |-> <<>>, parsed |-> "none"]

Document(diags, parsed) == [blank |-> FALSE, diags |-> diags, parsed |-> parsed]

ParserThrows == "throws"

\* mutant: a document with diagnostics makes the attempt throw
AttemptErrorOnDiags(body) ==
  IF body.blank THEN EmptyMsg
  ELSE IF Len(body.diags) > 0 THEN "CSV parse failed"
  ELSE IF body.parsed = ParserThrows THEN ParserMsg
  ELSE NoError

\* lines 145-162: what the attempt throws before it stores the data: the
\* empty-file error, what the row parser throws, or nothing
AttemptError(body) ==
  IF body.blank THEN EmptyMsg
  ELSE IF body.parsed = ParserThrows THEN ParserMsg
  ELSE NoError

\* lines 143-181: await response.text() settles with body
TextDone(slot, body) ==
  /\ inflight[slot].pc = "text"
  /\ LET call == inflight[slot]
         c == [call EXCEPT !.errors = @ \o body.diags,
                           !.warnings = @ \o ParseWarning(body.diags)]
         cache == MapSet(dataCache, StoreKey(c.src, c.key), body.parsed)
     IN  IF AttemptError(body) # NoError
         THEN Catch(slot, "text", IF body.blank THEN call ELSE c,
                    AttemptError(body), loadingStates, dataCache, <<>>)
         ELSE \E r \in setLoadingState(loadingStates, listeners, c.src,
                                       LoadedUpdate) :
                IF r.pub.threw
                THEN Catch(slot, "text", c, ListenerMsg, r.ls, cache,
                           <<r.pub>>)
                ELSE Finish(slot, "text",
                            [c EXCEPT !.pc = "done", !.diags = body.diags,
                                      !.found = Overwritten(c, dataCache)],
                            "returned",
                            [data |-> body.parsed, errors |-> c.errors,
                             warnings |-> c.warnings],
                            r.ls, cache, <<r.pub>>)

\* line 204 and the loop header: the backoff timer fires, the next attempt
\* issues its fetch
BackoffDone(slot) ==
  /\ inflight[slot].pc = "backoff"
  /\ LET call == inflight[slot]
     IN  Finish(slot, "backoff",
                [call EXCEPT !.pc = "fetch", !.attempt = @ + 1,
                             !.fetches = @ + 1, !.thrown = NoError],
                "pending", NoResult, loadingStates, dataCache, <<>>)

----------------------------------------------------------------------------
(* clearCache, clearAllCaches, subscribe *)

clearCache(dataSource) ==
  \E r \in setLoadingState(loadingStates, listeners, dataSource, IdleState) :
    /\ dataCache' = MapDelete(dataCache, dataSource)
    /\ loadingStates' = r.ls
    /\ published' = <<r.pub>>
    /\ lastOp' = OpRecord("clearCache", dataSource,
                          IF r.pub.threw THEN "rejected" ELSE "returned")
    /\ UNCHANGED <<listeners, unsubs, inflight, csvVars, moduleCaches>>

\* mutant: the cache is emptied and the loading states are kept
clearAllCachesKeepsStates ==
  /\ dataCache' = EmptyMap
  /\ loadingStates' = loadingStates
  /\ published' = <<>>
  /\ lastOp' = OpRecord("clearAllCaches", "all", "returned")
  /\ UNCHANGED <<listeners, unsubs, inflight, csvVars, moduleCaches>>

clearAllCaches ==
  /\ dataCache' = EmptyMap
  /\ loadingStates' = EmptyMap
  /\ published' = <<>>
  /\ lastOp' = OpRecord("clearAllCaches", "all", "returned")
  /\ UNCHANGED <<listeners, unsubs, inflight, csvVars, moduleCaches>>

\* Set.add: a listener already in the Set keeps its place
SetAdd(set, fn, by) ==
  IF \E i \in 1..Len(set) : set[i].fn = fn
  THEN set
  ELSE Append(set, [fn |-> fn, by |-> by])

\* Set.delete
SetDelete(set, fn) == SelectSeq(set, LAMBDA e : e.fn # fn)

\* history: the subscribe call that added fn to the Set, 0 when fn is not in it
AddedBy(set, fn) ==
  IF \E i \in 1..Len(set) : set[i].fn = fn
  THEN (CHOOSE e \in {set[i] : i \in 1..Len(set)} : e.fn = fn).by
  ELSE 0

subscribe(dataSource, listener) ==
  /\ Len(unsubs) < MaxSubs
  /\ listeners' = [listeners EXCEPT ![dataSource] =
                     SetAdd(@, listener, Len(unsubs) + 1)]
  /\ unsubs' = Append(unsubs, [src |-> dataSource, fn |-> listener,
                              calls |-> 0])
  /\ published' = <<>>
  /\ lastOp' = OpRecord("subscribe", dataSource, "returned")
  /\ UNCHANGED <<loadingStates, dataCache, inflight, csvVars, moduleCaches>>

\* the closure returned by the id-th subscribe call; calls counts its
\* invocations: 0, 1, or 2 for two and more
unsubscribe(id) ==
  /\ id \in 1..Len(unsubs)
  /\ listeners' = [listeners EXCEPT ![unsubs[id].src] =
                     SetDelete(@, unsubs[id].fn)]
  /\ unsubs' = [unsubs EXCEPT ![id].calls = IF @ = 0 THEN 1 ELSE 2]
  /\ published' = <<>>
  /\ lastOp' = [OpRecord("unsubscribe", unsubs[id].src, "returned")
                  EXCEPT !.id = id,
                         !.removedBy = AddedBy(listeners[unsubs[id].src],
                                               unsubs[id].fn)]
  /\ UNCHANGED <<loadingStates, dataCache, inflight, csvVars, moduleCaches>>

----------------------------------------------------------------------------
(* Listeners that call back into the manager while they are notified *)

\* a listener that does nothing but take the state
Plain == "f1"

\* a listener subscribed to a source that clears it when it is told the
\* source is loaded: st => { if (st.isLoaded) manager.clearCache(source) }
Clearers == {"g1"}

\* listener(newState): the forEach hands every listener the object that
\* setLoadingState built
Handed(ls, dataSource, newState) == newState

RECURSIVE ForEachNested(_, _, _, _, _, _, _)
RECURSIVE setLoadingStateNested(_, _, _, _, _, _)

\* clearCache called by a listener: lines 219-227 run inside the forEach
clearCacheNested(ls, cache, log, lst, dataSource) ==
  setLoadingStateNested(ls, MapDelete(cache, dataSource), log, lst, dataSource,
                        IdleState)

\* listeners.forEach from the i-th listener on; log lists the calls made:
\* the listener, the state it got and the state the map held at that moment
ForEachNested(ls, cache, log, lst, dataSource, newState, i) ==
  IF i > Len(lst[dataSource])
  THEN [ls |-> ls, cache |-> cache, log |-> log]
  ELSE LET fn == lst[dataSource][i].fn
           got == Handed(ls, dataSource, newState)
           called == Append(log, [src |-> dataSource, fn |-> fn, got |-> got,
                                  current |-> getLoadingState(ls, dataSource)])
       IN  IF fn \in Clearers /\ got.isLoaded
           THEN LET inner == clearCacheNested(ls, cache, called, lst, dataSource)
                IN  ForEachNested(inner.ls, inner.cache, inner.log, lst,
                                  dataSource, newState, i + 1)
           ELSE ForEachNested(ls, cache, called, lst, dataSource, newState,
                              i + 1)

\* setLoadingState with listeners that may call clearCache
setLoadingStateNested(ls, cache, log, lst, dataSource, upd) ==
  LET newState == MergeState(getLoadingState(ls, dataSource), upd)
  IN  ForEachNested(MapSet(ls, dataSource, newState), cache, log, lst,
                    dataSource, newState, 1)

\* lines 87-122 with such listeners; the call uses the default cacheKey
LoadStartNested(dataSource) ==
  /\ FreeSlots # {}
  /\ LET slot == CHOOSE i \in FreeSlots : \A j \in FreeSlots : i <= j
         call == NewCall(dataSource, dataSource, 1)
         hit == setLoadingStateNested(loadingStates, dataCache, <<>>, listeners,
                                      dataSource, LoadedUpdate)
         miss == setLoadingStateNested(loadingStates, dataCache, <<>>, listeners,
                                       dataSource, LoadingUpdate)
     IN  IF CacheHit(dataCache, dataSource, dataSource)
         THEN Finish(slot, "start", [call EXCEPT !.pc = "done", !.hit = TRUE],
                     "returned", HitResult(dataCache[dataSource]),
                     hit.ls, hit.cache, hit.log)
         ELSE Finish(slot, "start", [call EXCEPT !.fetches = 1], "pending",
                     NoResult, miss.ls, miss.cache, miss.log)

\* lines 143-181 with such listeners, for a document without diagnostics
TextDoneNested(slot, parsed) ==
  /\ inflight[slot].pc = "text"
  /\ LET call == inflight[slot]
         r == setLoadingStateNested(loadingStates,
                                    MapSet(dataCache,
                                           StoreKey(call.src, call.key), parsed),
                                    <<>>, listeners, call.src, LoadedUpdate)
     IN  Finish(slot, "text", [call EXCEPT !.pc = "done"], "returned",
                [data |-> parsed, errors |-> call.errors,
                 warnings |-> call.warnings],
                r.ls, r.cache, r.log)

\* clearCache called by the application, with such listeners
clearCacheOuter(dataSource) ==
  LET r == clearCacheNested(loadingStates, dataCache, <<>>, listeners,
                            dataSource)
  IN  /\ dataCache' = r.cache
      /\ loadingStates' = r.ls
      /\ published' = r.log
      /\ lastOp' = OpRecord("clearCache", dataSource, "returned")
      /\ UNCHANGED <<listeners, unsubs, inflight, csvVars, moduleCaches>>

----------------------------------------------------------------------------
(* loadCSVData with its timers: the abort timer of every attempt (line 127) *)
(* and the backoff timer (line 204); times are in ms since the call started *)

\* the clock advances in steps of one second
TickMs == 1000
\* the clock stops after this many steps
MaxTime == 4
\* values of the timeout option
Timeouts == {TickMs, 2 * TickMs}

\* no backoff timer is armed, no attempt has failed yet
NoTime == -1

NetworkMsg == "Failed to fetch"

\* mutant: all attempts share the controller of the first
ControllerShared(attempt) == 1

\* new AbortController(): every attempt has a controller of its own
ControllerOf(attempt) == attempt

\* record rec with the fields of more added or replaced
WithFields(rec, more) ==
  [f \in DOMAIN rec \cup DOMAIN more |->
     IF f \in DOMAIN more THEN more[f] ELSE rec[f]]

\* setTimeout(() => controller.abort(), timeout) of an attempt issued at now
AbortTimer(attempt, now, timeout) ==
  [attempt |-> attempt, ctl |-> ControllerOf(attempt), armedAt |-> now,
   due |-> now + timeout]

\* lines 111-135 on a cache miss: the loading state, then the first attempt
\* arms its timer and issues its fetch
TimedStart(dataSource, retries, timeout) ==
  /\ FreeSlots # {}
  /\ ~CacheHit(dataCache, dataSource, dataSource)
  /\ LET slot == CHOOSE i \in FreeSlots : \A j \in FreeSlots : i <= j
         call == WithFields([NewCall(dataSource, dataSource, retries)
                               EXCEPT !.fetches = 1],
                            [timeout |-> timeout, now |-> 0,
                             timers |-> {AbortTimer(1, 0, timeout)},
                             aborted |-> {}, issuedAt |-> 0,
                             failedAt |-> NoTime, wakeAt |-> NoTime])
     IN  \E r \in setLoadingState(loadingStates, listeners, dataSource,
                                   LoadingUpdate) :
           Finish(slot, "start", call, "pending", NoResult, r.ls, dataCache,
                  <<r.pub>>)

\* time passes while the call is suspended
Tick(slot) ==
  /\ inflight[slot].pc # "free"
  /\ inflight[slot].now < MaxTime * TickMs
  /\ Finish(slot, "tick", [inflight[slot] EXCEPT !.now = @ + TickMs],
            "pending", NoResult, loadingStates, dataCache, <<>>)

\* lines 183-205 with the backoff timer
CatchTimed(slot, step, call, errorMessage) ==
  LET c == [call EXCEPT !.thrown = errorMessage, !.failedAt = call.now]
  IN  IF IsFinalAttempt(c.attempt, c.retries)
      THEN \E r \in setLoadingState(loadingStates, listeners, c.src,
                                    ErrorUpdate(errorMessage)) :
             Finish(slot, step, [c EXCEPT !.pc = "done"], "returned",
                    TerminalResult(c.src, c.retries, errorMessage),
                    r.ls, dataCache, <<r.pub>>)
      ELSE Finish(slot, step,
                  [c EXCEPT !.pc = "backoff",
                            !.wakeAt = c.now + BackoffDelay(c.attempt)],
                  "pending", NoResult, loadingStates, dataCache, <<>>)

\* clearTimeout(timeoutId): the timer the current attempt armed
ClearTimeout(call) == {t \in call.timers : t.attempt # call.attempt}

\* the request of the current attempt has been cancelled
Cancelled(call) == ControllerOf(call.attempt) \in call.aborted

\* lines 129-141: the fetch resolves with a response; its timer is cleared
FetchResolves(slot, ok) ==
  /\ inflight[slot].pc = "fetch"
  /\ ~Cancelled(inflight[slot])
  /\ LET call == [inflight[slot] EXCEPT !.timers = ClearTimeout(inflight[slot])]
     IN  IF ok
         THEN Finish(slot, "resolve", [call EXCEPT !.pc = "text"], "pending",
                     NoResult, loadingStates, dataCache, <<>>)
         ELSE CatchTimed(slot, "resolve", call, HttpMsg)

\* line 129: the fetch rejects with a network error; line 137 is not reached
FetchRejects(slot) ==
  /\ inflight[slot].pc = "fetch"
  /\ ~Cancelled(inflight[slot])
  /\ CatchTimed(slot, "reject", inflight[slot], NetworkMsg)

\* line 127: an abort timer that is due runs () => controller.abort()
TimeoutFires(slot) ==
  /\ inflight[slot].pc # "free"
  /\ \E t \in inflight[slot].timers :
       /\ inflight[slot].now >= t.due
       /\ Finish(slot, "timeout",
                 [inflight[slot] EXCEPT !.timers = @ \ {t},
                                        !.aborted = @ \cup {t.ctl}],
                 "pending", NoResult, loadingStates, dataCache, <<>>)

\* line 129: the fetch whose signal was aborted rejects
AbortSettles(slot) ==
  /\ inflight[slot].pc = "fetch"
  /\ Cancelled(inflight[slot])
  /\ CatchTimed(slot, "abort", inflight[slot], AbortMsg)

\* lines 143-181: the body is read; a blank body throws
BodyReadTimed(slot, blank) ==
  /\ inflight[slot].pc = "text"
  /\ LET call == inflight[slot]
     IN  IF blank
         THEN CatchTimed(slot, "text", call, EmptyMsg)
         ELSE \E r \in setLoadingState(loadingStates, listeners, call.src,
                                       LoadedUpdate) :
                Finish(slot, "text", [call EXCEPT !.pc = "done"], "returned",
                       [data |-> "d1", errors |-> <<>>, warnings |-> <<>>],
                       r.ls, MapSet(dataCache, StoreKey(call.src, call.key), "d1"),
                       <<r.pub>>)

\* line 204 and lines 122-135: the backoff timer that is due resolves the
\* wait; the next attempt arms its timer and issues its fetch
BackoffFires(slot) ==
  /\ inflight[slot].pc = "backoff"
  /\ inflight[slot].now >= inflight[slot].wakeAt
  /\ LET call == inflight[slot]
     IN  Finish(slot, "backoff",
                [call EXCEPT !.pc = "fetch", !.attempt = @ + 1,
                             !.fetches = @ + 1, !.thrown = NoError,
                             !.issuedAt = call.now, !.wakeAt = NoTime,
                             !.timers = @ \cup {AbortTimer(call.attempt + 1,
                                                           call.now,
                                                           call.timeout)}],
                "pending", NoResult, loadingStates, dataCache, <<>>)

----------------------------------------------------------------------------
(* The loader specification *)

CsvIdle ==
  /\ csvText = <<>>
  /\ csvOpts = [skipEmptyLines |-> TRUE, skipHeaderLines |-> 0,
                delimiter |-> ",", quoteChar |-> "\"", trimFields |-> TRUE]
  /\ csvOut = [mode |-> "none"]

\* the manager after construction
LoaderIdle ==
  /\ loadingStates = EmptyMap
  /\ dataCache = EmptyMap
  /\ listeners = [s \in Sources |-> <<>>]
  /\ unsubs = <<>>
  /\ inflight = [i \in 1..MaxInflight |-> NoCall]
  /\ lastOp = OpRecord("init", "none", "none")
  /\ published = <<>>

\* the dataset loaders' datasets are sources of the manager
ACVoteShare == "s1"
MandalVoteShare == "s2"
Datasets == {ACVoteShare, MandalVoteShare}

\* let acVoteShareDataCache = null; let mandalVoteShareDataCache = null
ModuleIdle == moduleCaches = [d \in Datasets |-> Null]

Init ==
  /\ LoaderIdle
  /\ CsvIdle
  /\ ModuleIdle

FetchResults == {"ok", AbortMsg, HttpMsg}

Bodies ==
  {BlankBody} \cup
  {Document(d, p) : d \in ParseDiags, p \in Data \cup {ParserThrows}}

NoneInflight == \A i \in 1..MaxInflight : inflight[i].pc = "free"

\* one loadCSVData call at a time: the caller awaits each call
Load ==
  /\ NoneInflight
  /\ \E s \in Sources, k \in Sources, r \in Retries : LoadStart(s, k, r)

Fetched == \E i \in 1..MaxInflight, res \in FetchResults : FetchDone(i, res)

BodyRead == \E i \in 1..MaxInflight, body \in Bodies : TextDone(i, body)

Retry == \E i \in 1..MaxInflight : BackoffDone(i)

Clear == \E s \in Sources : clearCache(s)

ClearAll == clearAllCaches

\* one subscriber that may throw
SubThrower ==
  /\ unsubs = <<>>
  /\ \E s \in Sources, f \in Throwers : subscribe(s, f)

Next ==
  \/ Load
  \/ Fetched
  \/ BodyRead
  \/ Retry
  \/ Clear
  \/ ClearAll
  \/ SubThrower

Spec == Init /\ [][Next]_vars

----------------------------------------------------------------------------
(* The subscription specification: subscribers come and go while state    *)
(* changes are published                                                   *)

LoadDefault ==
  /\ NoneInflight
  /\ \E s \in Sources : LoadStart(s, s, 1)

FetchedOnce == \E i \in 1..MaxInflight, res \in {"ok", HttpMsg} : FetchDone(i, res)

BodyReadOnce == \E i \in 1..MaxInflight : TextDone(i, Document(<<>>, "d1"))

Sub == \E s \in Sources, f \in Fns : subscribe(s, f)

Unsub == \E id \in 1..MaxSubs : unsubscribe(id)

NextSub ==
  \/ LoadDefault
  \/ FetchedOnce
  \/ BodyReadOnce
  \/ Clear
  \/ Sub
  \/ Unsub

SpecSub == Init /\ [][NextSub]_vars

----------------------------------------------------------------------------
(* The clear-all specification: subscribers that only take the state,     *)
(* loads, and clearAllCaches                                               *)

SubPlain == \E s \in Sources : subscribe(s, Plain)

NextSilent ==
  \/ SubPlain
  \/ LoadDefault
  \/ FetchedOnce
  \/ BodyReadOnce
  \/ ClearAll

SpecSilent == Init /\ [][NextSilent]_vars

----------------------------------------------------------------------------
(* The race specification: loadCSVData calls for one cacheKey that are     *)
(* started while others are suspended                                      *)

RaceSource == "s2"
RaceKey == "s1"

LoadRace == \E r \in {1, MaxRetries} : LoadStart(RaceSource, RaceKey, r)

FetchedRace ==
  \E i \in 1..MaxInflight, res \in {"ok", HttpMsg} : FetchDone(i, res)

BodyReadRace ==
  \E i \in 1..MaxInflight, d \in Data : TextDone(i, Document(<<>>, d))

NextRace ==
  \/ LoadRace
  \/ FetchedRace
  \/ BodyReadRace
  \/ Retry
  \/ ClearAll

SpecRace == Init /\ [][NextRace]_vars

----------------------------------------------------------------------------
(* The shared-key specification: callers that do not await each other     *)
(* load one source under its default cacheKey while the cache is cleared   *)

SharedSource == "s1"

\* options.cacheKey is absent: cacheKey = dataSource (line 89)
LoadShared ==
  \E r \in {1, MaxRetries} : LoadStart(SharedSource, SharedSource, r)

ClearShared == clearCache(SharedSource)

NextShared ==
  \/ LoadShared
  \/ FetchedRace
  \/ BodyReadRace
  \/ Retry
  \/ ClearShared
  \/ ClearAll

SpecShared == Init /\ [][NextShared]_vars

----------------------------------------------------------------------------
(* The dataset loaders: loadACVoteShareData and loadMandalVoteShareData    *)
(* with their module-level caches                                          *)

\* the retries option the dataset loaders pass
DatasetRetries == 3

\* if (acVoteShareDataCache): null is falsy, every object is truthy, the
\* empty object {} included
IsTruthy(value) == value # Null

\* the synchronous part of a dataset loader: the module-level cache is
\* returned when it is set, else loadCSVWithRetry is called with cacheKey
\* equal to the dataset name
loadDataset(dataset) ==
  IF IsTruthy(moduleCaches[dataset])
  THEN /\ lastOp' = [OpRecord("dataset", dataset, "returned")
                       EXCEPT !.result = [NoResult EXCEPT
                                            !.data = moduleCaches[dataset]]]
       /\ published' = <<>>
       /\ UNCHANGED <<loadingStates, dataCache, listeners, unsubs, inflight,
                      csvVars, moduleCaches>>
  ELSE LoadStart(dataset, dataset, DatasetRetries)

\* loadCSVWithRetry has returned and the dataset loader resumes
AwaitResumes == lastOp.op = "load" /\ lastOp.outcome = "returned"

\* the dataset loader after its await: the data of the result, whatever the
\* result's errors, becomes the module-level cache and is returned
assignCache ==
  /\ AwaitResumes
  /\ moduleCaches' = [moduleCaches EXCEPT ![lastOp.arg] = lastOp.result.data]
  /\ lastOp' = [OpRecord("assigned", lastOp.arg, "returned")
                  EXCEPT !.result = lastOp.result]
  /\ published' = <<>>
  /\ UNCHANGED <<loadingStates, dataCache, listeners, unsubs, inflight,
                 csvVars>>

\* one dataset loader call at a time; a loader that can resume does so
\* before anything else runs
CallDataset ==
  /\ NoneInflight
  /\ ~AwaitResumes
  /\ \E d \in Datasets : loadDataset(d)

Resume == assignCache

NextDataset ==
  \/ CallDataset
  \/ Fetched
  \/ BodyReadRace
  \/ Retry
  \/ Resume

SpecDataset == Init /\ [][NextDataset]_vars

----------------------------------------------------------------------------
(* The re-entrancy specification: listeners that clear the cache from      *)
(* inside a notification                                                   *)

SubNested == \E s \in Sources, f \in {Plain} \cup Clearers : subscribe(s, f)

LoadNested ==
  /\ NoneInflight
  /\ \E s \in Sources : LoadStartNested(s)

FetchedNested == \E i \in 1..MaxInflight : FetchDone(i, "ok")

BodyReadNested == \E i \in 1..MaxInflight : TextDoneNested(i, "d1")

ClearNested == \E s \in Sources : clearCacheOuter(s)

NextNested ==
  \/ SubNested
  \/ LoadNested
  \/ FetchedNested
  \/ BodyReadNested
  \/ ClearNested

SpecNested == Init /\ [][NextNested]_vars

----------------------------------------------------------------------------
(* The timer specification: one call at a time with its clock and timers   *)

TimedSource == "s1"

LoadTimed ==
  /\ NoneInflight
  /\ \E r \in 1..MaxRetries, t \in Timeouts : TimedStart(TimedSource, r, t)

Tock == \E i \in 1..MaxInflight : Tick(i)

Resolved == \E i \in 1..MaxInflight, ok \in BOOLEAN : FetchResolves(i, ok)

Rejected == \E i \in 1..MaxInflight : FetchRejects(i)

TimedOut == \E i \in 1..MaxInflight : TimeoutFires(i)

Aborted == \E i \in 1..MaxInflight : AbortSettles(i)

BodyReadInTime == \E i \in 1..MaxInflight, b \in BOOLEAN : BodyReadTimed(i, b)

Woken == \E i \in 1..MaxInflight : BackoffFires(i)

NextTimer ==
  \/ LoadTimed
  \/ Tock
  \/ Resolved
  \/ Rejected
  \/ TimedOut
  \/ Aborted
  \/ BodyReadInTime
  \/ Woken
  \/ ClearAll

SpecTimer == Init /\ [][NextTimer]_vars

\* the timers of setTimeout run once they are due and an aborted fetch
\* rejects; nothing makes the network answer
SpecTimerFair ==
  /\ SpecTimer
  /\ WF_vars(Tock)
  /\ WF_vars(TimedOut)
  /\ WF_vars(Aborted)
  /\ WF_vars(Woken)

----------------------------------------------------------------------------
(* csvParser.ts: strings are sequences of one-character strings *)

\* longest text given to the parser
MaxLen == 4
\* largest value of the skipHeaderLines option
MaxSkip == 1

LF == "\n"
Comma == ","
DQuote == "\""
Space == " "
Alphabet == {"a", Space, Comma, DQuote, LF}
\* what String.prototype.trim strips
WhiteSpace == {Space, LF, "\t", "\r"}

Texts == UNION {[1..n -> Alphabet] : n \in 0..MaxLen}

Options ==
  [skipEmptyLines : BOOLEAN, skipHeaderLines : 0..MaxSkip,
   delimiter : {Comma}, quoteChar : {DQuote}, trimFields : BOOLEAN]

RECURSIVE TrimStart(_)
TrimStart(str) ==
  IF Len(str) > 0 /\ str[1] \in WhiteSpace THEN TrimStart(Tail(str)) ELSE str

RECURSIVE TrimEnd(_)
TrimEnd(str) ==
  IF Len(str) > 0 /\ str[Len(str)] \in WhiteSpace
  THEN TrimEnd(SubSeq(str, 1, Len(str) - 1))
  ELSE str

\* String.prototype.trim
Trim(str) == TrimEnd(TrimStart(str))

\* str.split(sep) for a one-character separator: the pieces between the
\* separators, one more than there are separators
RECURSIVE SplitFrom(_, _, _, _)
SplitFrom(str, sep, i, piece) ==
  IF i > Len(str) THEN <<piece>>
  ELSE IF str[i] = sep THEN <<piece>> \o SplitFrom(str, sep, i + 1, <<>>)
  ELSE SplitFrom(str, sep, i + 1, Append(piece, str[i]))

Split(str, sep) == SplitFrom(str, sep, 1, <<>>)

\* array.slice(start) for start >= 0
Slice(arr, start) == SubSeq(arr, start + 1, Len(arr))

\* fields.push(trimFields ? currentField.trim() : currentField)
PushField(fields, currentField, trimFields) ==
  Append(fields, IF trimFields THEN Trim(currentField) ELSE currentField)

\* mutant: two quote characters are an escaped quote outside quotes too
IsEscapedQuoteAnywhere(line, i, quoteChar, inQuotes) ==
  i + 1 <= Len(line) /\ line[i + 1] = quoteChar

\* the branch taken at a quote character: the escaped-quote rule
IsEscapedQuote(line, i, quoteChar, inQuotes) ==
  inQuotes /\ i + 1 <= Len(line) /\ line[i + 1] = quoteChar

\* mutant: a delimiter separates fields inside quotes too
IsSeparatorInQuotes(char, delimiter, inQuotes) == char = delimiter

\* char === delimiter && !inQuotes
IsSeparator(char, delimiter, inQuotes) == char = delimiter /\ ~inQuotes

\* the while loop of parseCSVLine, from index i (1-based)
RECURSIVE ScanLine(_, _, _, _, _, _, _, _)
ScanLine(line, delimiter, quoteChar, trimFields, fields, currentField, inQuotes, i) ==
  IF i > Len(line)
  THEN PushField(fields, currentField, trimFields)
  ELSE IF line[i] = quoteChar
  THEN IF IsEscapedQuote(line, i, quoteChar, inQuotes)
       THEN ScanLine(line, delimiter, quoteChar, trimFields, fields,
                     Append(currentField, quoteChar), inQuotes, i + 2)
       ELSE ScanLine(line, delimiter, quoteChar, trimFields, fields,
                     currentField, ~inQuotes, i + 1)
  ELSE IF IsSeparator(line[i], delimiter, inQuotes)
  THEN ScanLine(line, delimiter, quoteChar, trimFields,
                PushField(fields, currentField, trimFields), <<>>,
                inQuotes, i + 1)
  ELSE ScanLine(line, delimiter, quoteChar, trimFields, fields,
                Append(currentField, line[i]), inQuotes, i + 1)

parseCSVLine(line, delimiter, quoteChar, trimFields) ==
  ScanLine(line, delimiter, quoteChar, trimFields, <<>>, <<>>, FALSE, 1)

\* mutant: the skipped header lines are not counted
RowNumberInData(i, skipHeaderLines) == i + 1

\* i + skipHeaderLines + 1, for the 0-based index i into dataLines
RowNumber(i, skipHeaderLines) == i + skipHeaderLines + 1

ColumnDiag(rowNumber, expected, got) ==
  "Row " \o ToString(rowNumber) \o ": Expected " \o ToString(expected)
  \o " columns, got " \o ToString(got)

\* while (row.length < headers.length) row.push('')
RECURSIVE PadRow(_, _)
PadRow(row, n) == IF Len(row) < n THEN PadRow(Append(row, <<>>), n) ELSE row

\* mutant: long rows are kept as they are
TruncateRowNever(row, n) == row

\* if (row.length > headers.length) row.splice(headers.length)
TruncateRow(row, n) == IF Len(row) > n THEN SubSeq(row, 1, n) ELSE row

\* lines 64-73: the row as it is pushed
FitRow(row, n) == TruncateRow(PadRow(row, n), n)

\* mutant: no line is passed over
SkipsLineNever(skipEmptyLines, line) == FALSE

\* skipEmptyLines && !line, for the trimmed line
SkipsLine(skipEmptyLines, line) == skipEmptyLines /\ line = <<>>

\* the for loop of parseCSV, from index i (0-based, as in the code)
RECURSIVE ParseRows(_, _, _, _, _, _)
ParseRows(dataLines, headers, opts, i, rows, errors) ==
  IF ~(i < Len(dataLines))
  THEN [headers |-> headers, rows |-> rows, errors |-> errors]
  ELSE LET line == Trim(dataLines[i + 1])
           row == parseCSVLine(line, opts.delimiter, opts.quoteChar,
                               opts.trimFields)
       IN  IF SkipsLine(opts.skipEmptyLines, line)
           THEN ParseRows(dataLines, headers, opts, i + 1, rows, errors)
           ELSE ParseRows(dataLines, headers, opts, i + 1,
                          Append(rows, FitRow(row, Len(headers))),
                          IF Len(row) # Len(headers)
                          THEN Append(errors,
                                 ColumnDiag(RowNumber(i, opts.skipHeaderLines),
                                            Len(headers), Len(row)))
                          ELSE errors)

parseCSV(text, opts) ==
  LET lines == Split(text, LF)
      dataLines == Slice(lines, opts.skipHeaderLines)
  IN  IF Len(dataLines) = 0
      THEN [headers |-> <<>>, rows |-> <<>>,
            errors |-> <<"No data lines found in CSV">>]
      ELSE ParseRows(dataLines,
                     parseCSVLine(dataLines[1], opts.delimiter, opts.quoteChar,
                                  opts.trimFields),
                     opts, 1, <<>>, <<>>)

----------------------------------------------------------------------------
(* The parser specification *)

InitCSV ==
  /\ LoaderIdle
  /\ ModuleIdle
  /\ csvText \in Texts
  /\ csvOpts \in Options
  /\ csvOut = [mode |-> "none"]

\* parseCSV(csvText, csvOpts)
Parse ==
  /\ csvOut' = [mode |-> "parse", result |-> parseCSV(csvText, csvOpts)]
  /\ UNCHANGED <<csvText, csvOpts, loaderVars, moduleCaches>>

\* a field wrapped in quoteChar, every quoteChar inside doubled
RECURSIVE Escape(_, _)
Escape(field, quoteChar) ==
  IF field = <<>> THEN <<>>
  ELSE (IF field[1] = quoteChar THEN <<quoteChar, quoteChar>> ELSE <<field[1]>>)
       \o Escape(Tail(field), quoteChar)

QuoteField(field, quoteChar) ==
  <<quoteChar>> \o Escape(field, quoteChar) \o <<quoteChar>>

RECURSIVE JoinQuoted(_, _, _)
JoinQuoted(fields, delimiter, quoteChar) ==
  IF Len(fields) = 1 THEN QuoteField(fields[1], quoteChar)
  ELSE QuoteField(fields[1], quoteChar) \o <<delimiter>>
       \o JoinQuoted(Tail(fields), delimiter, quoteChar)

\* the tokenizer applied to the line built from the field values that the
\* line feeds of csvText separate
Tokenize ==
  LET fields == Split(csvText, LF)
      line == JoinQuoted(fields, csvOpts.delimiter, csvOpts.quoteChar)
  IN  /\ csvOut' = [mode |-> "tokenize", fields |-> fields, line |-> line,
                    tokens |-> parseCSVLine(line, csvOpts.delimiter,
                                            csvOpts.quoteChar,
                                            csvOpts.trimFields)]
      /\ UNCHANGED <<csvText, csvOpts, loaderVars, moduleCaches>>

NextCSV ==
  \/ Parse
  \/ Tokenize

SpecCSV == InitCSV /\ [][NextCSV]_vars

----------------------------------------------------------------------------
(* Claims about the loader, checked under Spec *)

LoadedShape(st) == ~st.isLoading /\ st.isLoaded /\ st.error = Null

ErrorShape(st) == ~st.isLoading /\ ~st.isLoaded /\ st.error # Null

\* the step that just ran was the synchronous start of a loadCSVData call
IsStart(op) == op.op = "load" /\ op.step = "start"

\* the step that just ran completed a call (it returned or rejected)
IsCompletion(op) == op.op = "load" /\ op.outcome \in {"returned", "rejected"}

\* C1: a loadCSVData call made while the cache holds an entry under cacheKey
\* issues no fetch (the call is over when its synchronous part ends, nothing
\* is suspended and the cache is untouched), leaves the source's state loaded,
\* and what it returns is the cached value, no errors and exactly the warning
\* 'Data loaded from cache'.
C1_CacheHitShortCircuit ==
  [][(IsStart(lastOp') /\ lastOp'.call.key \in DOMAIN dataCache) =>
       /\ IsCompletion(lastOp')
       /\ lastOp'.call.fetches = 0
       /\ inflight' = inflight
       /\ dataCache' = dataCache
       /\ LoadedShape(getLoadingState(loadingStates', lastOp'.call.src))
       /\ lastOp'.outcome = "returned" =>
            lastOp'.result = [data |-> dataCache[lastOp'.call.key],
                              errors |-> <<>>,
                              warnings |-> <<"Data loaded from cache">>]]_vars

\* C1 witness: a call for s1 under the cacheKey s2 was served from the cache
C1_Witness ==
  /\ IsStart(lastOp)
  /\ lastOp.outcome = "returned"
  /\ lastOp.call.src = "s1"
  /\ lastOp.call.key = "s2"
  /\ lastOp.result.data = "d2"
  /\ lastOp.result.warnings = <<"Data loaded from cache">>

\* every message parseCSV can report for a fetched document
DiagMessages == UNION {{d[i] : i \in 1..Len(d)} : d \in ParseDiags}

\* the step that just ran was a successful attempt: the call returned from
\* the end of the try block
IsSuccess(op) ==
  op.op = "load" /\ op.step = "text" /\ op.outcome = "returned"
  /\ op.result.data \in Data

\* C2: when the k-th attempt of a cache-miss load succeeds after k-1 failed
\* attempts (1 <= k <= retries), the call has issued exactly k fetches, it
\* returns the row parser's data with no 'Failed to load' error (its errors
\* are parse diagnostics only), the data is stored under cacheKey and the
\* source's state is loaded.
C2_RetryThenSucceed ==
  IsSuccess(lastOp) =>
    /\ lastOp.call.retries >= 1
    /\ lastOp.call.attempt \in 1..lastOp.call.retries
    /\ lastOp.call.fetches = lastOp.call.attempt
    /\ ~lastOp.call.hit
    /\ \A i \in 1..Len(lastOp.result.errors) :
         lastOp.result.errors[i] \in DiagMessages
    /\ lastOp.call.key \in DOMAIN dataCache
    /\ dataCache[lastOp.call.key] = lastOp.result.data
    /\ getLoadingState(loadingStates, lastOp.call.src) =
         MergeState(IdleState, LoadedUpdate)

\* C2 witness: the second attempt of a load of s1 under the cacheKey s2
\* succeeded
C2_Witness ==
  /\ IsSuccess(lastOp)
  /\ lastOp.call.attempt = 2
  /\ lastOp.call.fetches = 2
  /\ lastOp.call.src = "s1"
  /\ lastOp.call.key = "s2"

\* C11: the diagnostics parseCSV reports never make an attempt fail: an
\* attempt whose response body was read fails only on a blank body or on an
\* exception of the row parser or of a listener; otherwise the load
\* completes in that attempt (as many fetches as attempts), its errors end
\* with the document's diagnostics, and the row parser's value is returned,
\* stored under cacheKey, with the state loaded.
C11_DiagnosticsNeverRetry ==
  (lastOp.op = "load" /\ lastOp.step = "text") =>
    /\ lastOp.call.thrown \in {NoError, EmptyMsg, ParserMsg, ListenerMsg}
    /\ lastOp.call.thrown = NoError =>
         LET r == lastOp.result
             d == lastOp.call.diags
         IN  /\ lastOp.outcome = "returned"
             /\ lastOp.call.fetches = lastOp.call.attempt
             /\ d \in ParseDiags
             /\ Len(r.errors) >= Len(d)
             /\ SubSeq(r.errors, Len(r.errors) - Len(d) + 1, Len(r.errors)) = d
             /\ r.data \in Data
             /\ lastOp.call.key \in DOMAIN dataCache
             /\ dataCache[lastOp.call.key] = r.data
             /\ LoadedShape(getLoadingState(loadingStates, lastOp.call.src))

\* C11 witness: the first attempt of a load with two retries completed
\* although parseCSV reported a diagnostic
C11_Witness ==
  /\ lastOp.op = "load"
  /\ lastOp.step = "text"
  /\ lastOp.outcome = "returned"
  /\ lastOp.call.retries = 2
  /\ lastOp.call.attempt = 1
  /\ lastOp.call.fetches = 1
  /\ Len(lastOp.call.diags) = 1
  /\ lastOp.result.errors = lastOp.call.diags

\* C12 (the claim as stated): a call made for a source whose state is
\* loaded or error moves that state to loading.
C12_ReentersLoading ==
  [][IsStart(lastOp') =>
       LET pre == getLoadingState(loadingStates, lastOp'.call.src)
           post == getLoadingState(loadingStates', lastOp'.call.src)
       IN  (LoadedShape(pre) \/ ErrorShape(pre)) => post.isLoading]_vars

\* C12 (amended): whatever the source's state, a call that finds no entry
\* under cacheKey moves the state to loading (error and lastUpdated
\* cleared), and a call that finds one moves it to loaded without passing
\* through loading.
C12_ReentersLoadingOnMiss ==
  [][IsStart(lastOp') =>
       LET pre == getLoadingState(loadingStates, lastOp'.call.src)
           post == getLoadingState(loadingStates', lastOp'.call.src)
       IN  IF lastOp'.call.key \in DOMAIN dataCache
           THEN LoadedShape(post)
           ELSE /\ post.isLoading
                /\ ~post.isLoaded
                /\ post.error = Null
                /\ post.lastUpdated = Null]_vars

\* C12 witness: a call for a loaded source found nothing under its cacheKey
\* and is suspended at its first fetch with the state loading
C12_Witness ==
  /\ IsStart(lastOp)
  /\ lastOp.outcome = "pending"
  /\ lastOp.call.startLoaded
  /\ getLoadingState(loadingStates, lastOp.call.src).isLoading

\* C14 (the claim as stated): a source enters the loaded state or the error
\* state only from the loading state.
C14_Lifecycle ==
  [][\A s \in Sources :
       LET pre == getLoadingState(loadingStates, s)
           post == getLoadingState(loadingStates', s)
       IN  \/ LoadedShape(post) /\ ~LoadedShape(pre)
           \/ ErrorShape(post) /\ ~ErrorShape(pre)
           => pre.isLoading]_vars

\* C17: a call that finds no entry under cacheKey stores the loading state
\* and notifies the source's subscribers before it issues a fetch (a call
\* whose notification throws has issued none; a suspended call has issued
\* one), and an attempt that fails before the last one leaves the call
\* suspended and every state as it was.
C17_LoadingBeforeNetwork ==
  [][/\ (IsStart(lastOp') /\ lastOp'.call.key \notin DOMAIN dataCache) =>
          LET s == lastOp'.call.src
          IN  /\ s \in DOMAIN loadingStates'
              /\ loadingStates'[s] =
                   [isLoading |-> TRUE, isLoaded |-> FALSE, error |-> Null,
                    lastUpdated |-> Null]
              /\ Len(published') = 1
              /\ published'[1].src = s
              /\ published'[1].state = loadingStates'[s]
              /\ published'[1].threw =>
                   /\ lastOp'.outcome = "rejected"
                   /\ lastOp'.call.fetches = 0
              /\ ~published'[1].threw =>
                   published'[1].called = FnsOf(listeners, s)
              /\ lastOp'.outcome = "pending" =>
                   \E i \in 1..MaxInflight :
                     /\ inflight[i].pc = "free"
                     /\ inflight'[i].pc = "fetch"
                     /\ inflight'[i].fetches = 1
     /\ \A i \in 1..MaxInflight :
          (/\ inflight[i].pc \in {"fetch", "text"}
           /\ inflight'[i] # inflight[i]
           /\ inflight[i].attempt < inflight[i].retries
           /\ lastOp'.call.thrown \notin {NoError, ListenerMsg}) =>
            /\ inflight'[i].pc = "backoff"
            /\ inflight'[i].attempt = inflight[i].attempt
            /\ loadingStates' = loadingStates
            /\ published' = <<>>
     /\ \A i \in 1..MaxInflight :
          (inflight[i].pc = "backoff" /\ inflight'[i] # inflight[i]) =>
            /\ inflight'[i].pc = "fetch"
            /\ loadingStates' = loadingStates
            /\ published' = <<>>]_vars

\* C17 witness: the first of two attempts has failed and the call waits for
\* its backoff timer with the source's state still loading
C17_Witness ==
  /\ lastOp.op = "load"
  /\ lastOp.step = "fetch"
  /\ lastOp.outcome = "pending"
  /\ lastOp.call.pc = "backoff"
  /\ lastOp.call.thrown = HttpMsg
  /\ getLoadingState(loadingStates, lastOp.call.src) =
       MergeState(IdleState, LoadingUpdate)

\* the step that just ran ended a call whose last attempt failed
IsExhausted(op) ==
  IsCompletion(op) /\ op.step \in {"fetch", "text"} /\ ~IsSuccess(op)

\* C3 (the claim as stated): when every attempt of a load has failed,
\* loadCSVData does not reject; it returns the empty data with exactly one
\* terminal message and no warnings, and the source's state is the error
\* state carrying the last failure's message.
C3_ExhaustedReported ==
  IsExhausted(lastOp) =>
    /\ lastOp.outcome = "returned"
    /\ lastOp.result.data = EmptyData
    /\ Len(lastOp.result.errors) = 1
    /\ lastOp.result.warnings = <<>>
    /\ ErrorShape(getLoadingState(loadingStates, lastOp.call.src))
    /\ lastOp.result =
         TerminalResult(lastOp.call.src, lastOp.call.retries,
                        getLoadingState(loadingStates, lastOp.call.src).error)

\* the two steps are two consecutive calls for one source and cacheKey, the
\* first made while the source's state was loaded
Consecutive(first, second) ==
  /\ first.op = "load"
  /\ first.outcome = "returned"
  /\ first.call.startLoaded
  /\ IsStart(second)
  /\ second.call.src = first.call.src
  /\ second.call.key = first.call.key

\* C4 (the claim as stated): of two consecutive calls for a source whose
\* state is loaded (same cacheKey), the first is served from the cache, the
\* second issues no fetch, and both return the same cached value.
C4_LoadedIdempotent ==
  [][Consecutive(lastOp, lastOp') =>
       /\ lastOp.call.hit
       /\ lastOp'.outcome # "pending"
       /\ lastOp'.outcome = "returned" =>
            /\ lastOp'.call.hit
            /\ lastOp'.result.data = lastOp.result.data]_vars

----------------------------------------------------------------------------
(* Claims about concurrent loads, checked under SpecRace *)

\* C15: a call started while another call for the same cacheKey is
\* suspended, the cache holding nothing under it, is not joined to that
\* call: it is suspended at a fetch of its own and the other call is as it
\* was; every suspended call has issued as many fetches as it has made
\* attempts, at least one; and every call that succeeds leaves its own value
\* in the cache, so that the cache holds the value of the call that
\* completed last.
C15_NoDeduplication ==
  [][/\ (/\ IsStart(lastOp')
          /\ InFlightFor(lastOp'.call.key) # {}
          /\ lastOp'.call.key \notin DOMAIN dataCache) =>
            /\ lastOp'.outcome = "pending"
            /\ \E i \in 1..MaxInflight :
                 /\ inflight[i].pc = "free"
                 /\ inflight'[i].pc = "fetch"
                 /\ inflight'[i].fetches = 1
                 /\ inflight'[i].raced
                 /\ \A j \in 1..MaxInflight \ {i} : inflight'[j] = inflight[j]
     /\ \A i \in 1..MaxInflight :
          inflight'[i].pc # "free" =>
            /\ inflight'[i].fetches >= 1
            /\ inflight'[i].fetches = inflight'[i].attempt
     /\ IsSuccess(lastOp') =>
          /\ lastOp'.call.fetches >= 1
          /\ lastOp'.call.key \in DOMAIN dataCache'
          /\ dataCache'[lastOp'.call.key] = lastOp'.result.data]_vars

\* C15 witness: of two calls that overlapped, the one that completed last
\* has replaced the d1 of the other by its d2, and nothing is in flight
C15_Witness ==
  /\ IsSuccess(lastOp)
  /\ lastOp.call.raced
  /\ lastOp.call.found = "d1"
  /\ lastOp.result.data = "d2"
  /\ dataCache[lastOp.call.key] = "d2"
  /\ NoneInflight

----------------------------------------------------------------------------
(* Claims about timers, checked under SpecTimer *)

Suspended == {i \in 1..MaxInflight : inflight[i].pc # "free"}

C19_AttemptDeadline ==
  [][/\ \A i \in 1..MaxInflight :
          inflight'[i].pc # "free" =>
            LET d == inflight'[i]
                own == {t \in d.timers : t.attempt = d.attempt}
            IN  /\ d.pc = "fetch" =>
                     \/ own = {[attempt |-> d.attempt, ctl |-> d.attempt,
                                armedAt |-> d.issuedAt,
                                due |-> d.issuedAt + d.timeout]}
                     \/ own = {} /\ d.attempt \in d.aborted
                /\ (d.pc = "fetch" /\ Cancelled(d)) =>
                     d.now >= d.issuedAt + d.timeout
                /\ d.pc = "text" => own = {} /\ ~Cancelled(d)
                /\ \A t \in d.timers : t.attempt <= d.attempt
     /\ \A i \in Suspended :
          (lastOp'.step = "timeout" /\ inflight'[i] # inflight[i]) =>
            /\ inflight'[i].pc = inflight[i].pc
            /\ inflight'[i].attempt = inflight[i].attempt
            /\ \E t \in inflight[i].timers :
                 /\ inflight[i].now >= t.armedAt + inflight[i].timeout
                 /\ inflight'[i].aborted = inflight[i].aborted \cup {t.attempt}
                 /\ t.attempt # inflight[i].attempt =>
                      Cancelled(inflight'[i]) = Cancelled(inflight[i])
     /\ \A i \in Suspended :
          (lastOp'.step = "abort" /\ inflight'[i] # inflight[i]) =>
            /\ lastOp'.call.thrown = AbortMsg
            /\ IF inflight[i].attempt < inflight[i].retries
               THEN inflight'[i].pc = "backoff"
               ELSE /\ lastOp'.outcome = "returned"
                    /\ lastOp'.result =
                         TerminalResult(inflight[i].src, inflight[i].retries,
                                        AbortMsg)]_vars

\* C19 witness: the timer that the first attempt left armed when its fetch
\* failed on the network has fired during the second attempt, whose request
\* is still pending and not cancelled
C19_Witness ==
  /\ lastOp.op = "load"
  /\ lastOp.step = "timeout"
  /\ inflight[1].pc = "fetch"
  /\ inflight[1].attempt = 2
  /\ inflight[1].aborted = {1}
  /\ ~Cancelled(inflight[1])

----------------------------------------------------------------------------
(* Claims about re-entrant listeners, checked under SpecNested *)

\* C16 (the claim as stated): whenever a listener is called, the state it
\* gets is the state the store holds for the source at that moment, also
\* when a listener calls clearCache during the notification.
C16_NotificationsCurrent ==
  \A i \in 1..Len(published) : published[i].got = published[i].current

----------------------------------------------------------------------------
(* Claims about subscriptions, checked under SpecSub *)

NoDuplicates(seq) ==
  \A i, j \in 1..Len(seq) : seq[i] = seq[j] => i = j

\* the Set keeps its listeners in the order of the subscribe calls that
\* added them
InSubscriptionOrder(set) ==
  \A i, j \in 1..Len(set) : i < j => set[i].by < set[j].by

\* C7: every setLoadingState stores the merged state, and when it returns it
\* has called each listener subscribed to that source exactly once, in
\* subscription order, and no other listener.
C7_NotifyInOrder ==
  \A i \in 1..Len(published) :
    LET p == published[i]
    IN  /\ i = Len(published) => getLoadingState(loadingStates, p.src) = p.state
        /\ p.src \in DOMAIN loadingStates
        /\ InSubscriptionOrder(listeners[p.src])
        /\ ~p.threw =>
             /\ Len(p.called) = Len(listeners[p.src])
             /\ \A k \in 1..Len(p.called) :
                  p.called[k] = listeners[p.src][k].fn
             /\ NoDuplicates(p.called)

\* C7 witness: a loaded state was delivered to two listeners of s1, the one
\* subscribed first (f2) before the other (f1)
C7_Witness ==
  /\ Len(published) = 1
  /\ published[1].src = "s1"
  /\ published[1].state.isLoaded
  /\ ~published[1].threw
  /\ published[1].called = <<"f2", "f1">>

\* the step that just ran was a second or later call of an unsubscribe
\* closure
IsRepeatedUnsub(op) ==
  op.op = "unsubscribe" /\ unsubs[op.id].calls = 2

\* the subscription made by the id-th subscribe call is gone once its
\* closure has been called
UnsubscribedStaysOut ==
  \A id \in 1..Len(unsubs) :
    unsubs[id].calls > 0 =>
      \A i \in 1..Len(listeners[unsubs[id].src]) :
        listeners[unsubs[id].src][i].by # id

\* C8 (the claim as stated): a second or later call of an unsubscribe
\* closure removes nothing from the set of subscribers, and after its first
\* call its subscription is no longer in the set.
C8_UnsubscribeIdempotent ==
  /\ IsRepeatedUnsub(lastOp) => lastOp.removedBy = 0
  /\ UnsubscribedStaysOut

\* C9: clearCache(source) leaves no cache entry under source and the idle
\* state for it, has notified the source's subscribers of the idle state
\* when it returns, and changes no other source's cache entry or state.
C9_ClearCacheResets ==
  [][lastOp'.op = "clearCache" =>
       LET s == lastOp'.arg
       IN  /\ s \notin DOMAIN dataCache'
           /\ s \in DOMAIN loadingStates'
           /\ loadingStates'[s] = IdleState
           /\ Len(published') = 1
           /\ published'[1].src = s
           /\ published'[1].state = IdleState
           /\ lastOp'.outcome = "returned" =>
                published'[1].called = FnsOf(listeners, s)
           /\ listeners' = listeners
           /\ \A t \in Sources \ {s} :
                /\ t \in DOMAIN dataCache' <=> t \in DOMAIN dataCache
                /\ t \in DOMAIN dataCache => dataCache'[t] = dataCache[t]
                /\ t \in DOMAIN loadingStates' <=> t \in DOMAIN loadingStates
                /\ t \in DOMAIN loadingStates =>
                     loadingStates'[t] = loadingStates[t]]_vars

\* C9 witness: clearCache("s1") notified two subscribers while s2 stays
\* loaded with its cache entry
C9_Witness ==
  /\ lastOp.op = "clearCache"
  /\ lastOp.arg = "s1"
  /\ lastOp.outcome = "returned"
  /\ Len(published[1].called) = 2
  /\ "s2" \in DOMAIN dataCache
  /\ isDataLoaded(loadingStates, "s2")

----------------------------------------------------------------------------
(* Claims about the parser, checked under SpecCSV *)

\* the lines of the text, as text.split('\n') gives them
TextLines == Split(csvText, LF)

\* a line that the blank-line policy skips
IsSkipped(line) == csvOpts.skipEmptyLines /\ Trim(line) = <<>>

\* the tokenized fields of a line (the parser tokenizes the trimmed line)
Tokens(line) ==
  parseCSVLine(Trim(line), csvOpts.delimiter, csvOpts.quoteChar,
               csvOpts.trimFields)

\* the positions of the lines that yield a row, in order
RECURSIVE KeptFrom(_)
KeptFrom(p) ==
  IF p > Len(TextLines) THEN <<>>
  ELSE (IF IsSkipped(TextLines[p]) THEN <<>> ELSE <<p>>) \o KeptFrom(p + 1)

KeptPositions == KeptFrom(csvOpts.skipHeaderLines + 2)

Parsed == csvOut.mode = "parse" /\ Len(TextLines) > csvOpts.skipHeaderLines

\* C5: every row of parseCSV's result has exactly headers.length fields and
\* is the tokenized fields of its line, cut to the first N or filled up with
\* empty strings.
C5_RowWidth ==
  Parsed =>
    LET r == csvOut.result
        n == Len(r.headers)
    IN  /\ Len(r.rows) = Len(KeptPositions)
        /\ \A j \in 1..Len(r.rows) :
             LET tok == Tokens(TextLines[KeptPositions[j]])
             IN  /\ Len(r.rows[j]) = n
                 /\ \A k \in 1..n :
                      r.rows[j][k] = IF k <= Len(tok) THEN tok[k] ELSE <<>>

\* C5 witness: with two header columns, a line of three fields was cut
C5_Witness ==
  /\ Parsed
  /\ Len(csvOut.result.headers) = 2
  /\ Len(csvOut.result.rows) = 1
  /\ Len(Tokens(TextLines[KeptPositions[1]])) = 3

\* the diagnostics expected for the lines from position p on
RECURSIVE DiagsFrom(_, _)
DiagsFrom(p, n) ==
  IF p > Len(TextLines) THEN <<>>
  ELSE (IF ~IsSkipped(TextLines[p]) /\ Len(Tokens(TextLines[p])) # n
        THEN <<ColumnDiag(p, n, Len(Tokens(TextLines[p])))>>
        ELSE <<>>) \o DiagsFrom(p + 1, n)

\* C6: parseCSV's errors are exactly one 'Row <n>: Expected <N> columns, got
\* <got>' for each non-skipped data line whose field count differs from N,
\* in order, <n> being the line's 1-based position in the original text.
C6_DiagnosticPerRow ==
  Parsed =>
    csvOut.result.errors =
      DiagsFrom(csvOpts.skipHeaderLines + 2, Len(csvOut.result.headers))

\* C6 witness: the third line, after the header and a blank line that is
\* passed over, has two fields where the header has one
C6_Witness ==
  /\ Parsed
  /\ csvOpts.skipEmptyLines
  /\ Len(TextLines) = 3
  /\ IsSkipped(TextLines[2])
  /\ csvOut.result.errors = <<"Row 3: Expected 1 columns, got 2">>

\* C10 (the claim as stated): tokenizing the line built from quoted fields
\* returns exactly the original field values.
C10_RoundTrip ==
  csvOut.mode = "tokenize" => csvOut.tokens = csvOut.fields

\* C10 (amended): it returns the original field values when trimFields is
\* false, and each original value stripped of its leading and trailing
\* whitespace when trimFields is true.
C10_RoundTripUpToTrim ==
  csvOut.mode = "tokenize" =>
    /\ Len(csvOut.tokens) = Len(csvOut.fields)
    /\ \A i \in 1..Len(csvOut.fields) :
         csvOut.tokens[i] = IF csvOpts.trimFields
                            THEN Trim(csvOut.fields[i])
                            ELSE csvOut.fields[i]

\* C10 witness: two fields holding the delimiter, the quote character and a
\* space came back unchanged
C10_Witness ==
  /\ csvOut.mode = "tokenize"
  /\ ~csvOpts.trimFields
  /\ csvOut.fields = << <<Comma, DQuote>>, <<Space>> >>
  /\ csvOut.tokens = csvOut.fields

\* the positions of the quote characters of a line
QuotePositions(line) == {i \in 1..Len(line) : line[i] = csvOpts.quoteChar}

\* the fields of a line whose only quote character is at position q: the
\* text before the quote split at the delimiters, the last piece followed by
\* all the text after the quote
UnterminatedFields(line, q) ==
  LET pieces == Split(SubSeq(line, 1, q - 1), csvOpts.delimiter)
      m == Len(pieces)
      field(i) == IF i < m THEN pieces[i]
                  ELSE pieces[m] \o SubSeq(line, q + 1, Len(line))
  IN  [i \in 1..m |-> IF csvOpts.trimFields THEN Trim(field(i)) ELSE field(i)]

IsFieldList(fields) ==
  /\ DOMAIN fields = 1..Len(fields)
  /\ \A i \in 1..Len(fields) : DOMAIN fields[i] = 1..Len(fields[i])

\* C13: for every text and option setting parseCSV returns a record of
\* headers, rows and errors (lists of fields, a list of rows, a list of
\* messages), the tokenizer returns at least one field for every line, and a
\* line whose only quote character is never closed yields everything after
\* that quote, delimiters included, in its last field.
C13_Total ==
  /\ csvOut.mode = "parse" =>
       LET r == csvOut.result
       IN  /\ DOMAIN r = {"headers", "rows", "errors"}
           /\ IsFieldList(r.headers)
           /\ DOMAIN r.rows = 1..Len(r.rows)
           /\ \A j \in 1..Len(r.rows) : IsFieldList(r.rows[j])
           /\ DOMAIN r.errors = 1..Len(r.errors)
           /\ Len(TextLines) > csvOpts.skipHeaderLines =>
                LET line == TextLines[csvOpts.skipHeaderLines + 1]
                IN  /\ Len(r.headers) >= 1
                    /\ \A q \in QuotePositions(line) :
                         QuotePositions(line) = {q} =>
                           r.headers = UnterminatedFields(line, q)
  /\ csvOut.mode = "tokenize" =>
       /\ IsFieldList(csvOut.tokens)
       /\ Len(csvOut.tokens) >= 1

\* C13 witness: the header line a"," opens a quote and never closes it; it
\* is one field holding the two delimiters
C13_Witness ==
  /\ csvOut.mode = "parse"
  /\ csvText = <<"a", DQuote, Comma, Comma>>
  /\ csvOut.result.headers = << <<"a", Comma, Comma>> >>
  /\ csvOut.result.rows = <<>>
  /\ csvOut.result.errors = <<>>

\* the positions of the lines after the header line
AfterHeader == (csvOpts.skipHeaderLines + 2)..Len(TextLines)

\* the lines after the header that are not empty once trimmed
NonBlank == {p \in AfterHeader : Trim(TextLines[p]) # <<>>}

\* the number of positions of a set up to p
RankIn(set, p) == Cardinality({q \in set : q <= p})

\* a column diagnostic that names the line at position p
NamesLine(message, p) ==
  \E n, g \in 0..(MaxLen + 1) : message = ColumnDiag(p, n, g)

\* C20: with skipEmptyLines the rows are the non-blank lines after the
\* header, one row each in the order of the lines, and no diagnostic names
\* a blank line; without it every line after the header gives one row.
C20_BlankLinePolicy ==
  Parsed =>
    LET r == csvOut.result
        kept == IF csvOpts.skipEmptyLines THEN NonBlank ELSE AfterHeader
    IN  /\ Len(r.rows) = Cardinality(kept)
        /\ \A p \in kept :
             r.rows[RankIn(kept, p)][1] = Tokens(TextLines[p])[1]
        /\ \A p \in AfterHeader \ kept :
             \A i \in 1..Len(r.errors) : ~NamesLine(r.errors[i], p)

\* C20 witness: the second line, a space, is passed over and the third
\* line is the only row
C20_Witness ==
  /\ Parsed
  /\ csvOpts.skipEmptyLines
  /\ csvOpts.skipHeaderLines = 0
  /\ csvText = <<LF, Space, LF, "a">>
  /\ csvOut.result.rows = << << <<"a">> >> >>
  /\ csvOut.result.errors = <<>>

----------------------------------------------------------------------------

\* the positions of a line that hold the delimiter with an even number of
\* quote characters before them
UnquotedDelims(line) ==
  {i \in 1..Len(line) :
     /\ line[i] = csvOpts.delimiter
     /\ Cardinality({q \in QuotePositions(line) : q < i}) % 2 = 0}

\* the header line of the text, which parseCSV tokenizes as it stands
HeaderLine == TextLines[csvOpts.skipHeaderLines + 1]

\* C21: the tokenizer returns one field more than the line has delimiter
\* characters outside quotes: a delimiter inside quotes never splits, a
\* line without an unquoted delimiter is one field, and a line that ends
\* with an unquoted delimiter ends with an empty field.
C21_FieldCount ==
  /\ Parsed =>
       LET h == csvOut.result.headers
           n == Len(HeaderLine)
       IN  /\ Len(h) = 1 + Cardinality(UnquotedDelims(HeaderLine))
           /\ n \in UnquotedDelims(HeaderLine) => h[Len(h)] = <<>>
  /\ csvOut.mode = "tokenize" =>
       /\ Len(csvOut.tokens) = 1 + Cardinality(UnquotedDelims(csvOut.line))
       /\ Len(csvOut.tokens) = Len(csvOut.fields)

\* C21 witness: the header line a,"," has three delimiters, one of them
\* outside quotes, and gives two fields
C21_Witness ==
  /\ Parsed
  /\ csvOpts.skipHeaderLines = 0
  /\ csvText = <<"a", Comma, DQuote, Comma>>
  /\ UnquotedDelims(HeaderLine) = {2}
  /\ csvOut.result.headers = << <<"a">>, <<Comma>> >>

----------------------------------------------------------------------------

\* the four shapes of a loading state record
IdleShape(st) ==
  ~st.isLoading /\ ~st.isLoaded /\ st.error = Null /\ st.lastUpdated = Null

LoadingShape(st) ==
  st.isLoading /\ ~st.isLoaded /\ st.error = Null /\ st.lastUpdated = Null

LoadedDated(st) == LoadedShape(st) /\ st.lastUpdated # Null

ErrorUndated(st) == ErrorShape(st) /\ st.lastUpdated = Null

WellFormed(st) ==
  /\ DOMAIN st = {"isLoading", "isLoaded", "error", "lastUpdated"}
  /\ IdleShape(st) \/ LoadingShape(st) \/ LoadedDated(st) \/ ErrorUndated(st)
  /\ ~(st.isLoading /\ st.isLoaded)

\* C22: every stored loading state, and every state handed to a listener,
\* is idle, loading, loaded with lastUpdated set, or error with a message
\* and no lastUpdated; isLoading and isLoaded are never both true.
C22_WellFormedStates ==
  /\ \A s \in Sources : WellFormed(getLoadingState(loadingStates, s))
  /\ \A s \in DOMAIN loadingStates : s \in Sources
  /\ \A i \in 1..Len(published) : WellFormed(published[i].state)

\* C22 witness: a load of s1 has just failed for good while s2 is loaded:
\* an error record and a loaded record are stored side by side
C22_Witness ==
  /\ IsExhausted(lastOp)
  /\ lastOp.arg = "s1"
  /\ "s1" \in DOMAIN loadingStates
  /\ ErrorUndated(loadingStates["s1"])
  /\ "s2" \in DOMAIN loadingStates
  /\ LoadedDated(loadingStates["s2"])

----------------------------------------------------------------------------

\* C23 (the claim as stated): when a loadCSVData call returns, whatever its
\* retries value, and no other load of the source is in flight, the state of
\* the source has isLoading false.
C23_ReturnedNotLoading ==
  (/\ IsCompletion(lastOp)
   /\ lastOp.outcome = "returned"
   /\ \A i \in 1..MaxInflight :
        inflight[i].pc # "free" => inflight[i].src # lastOp.arg)
    => ~getLoadingState(loadingStates, lastOp.arg).isLoading

----------------------------------------------------------------------------

\* C29 (the claim as stated): the errors a successful load returns are
\* exactly the diagnostics parseCSV produced for the document of the attempt
\* that succeeded, and its warnings hold at most one entry; nothing of an
\* earlier failed attempt is carried over.
C29_ErrorsOfSuccessfulAttempt ==
  IsSuccess(lastOp) =>
    /\ lastOp.result.errors = lastOp.call.diags
    /\ Len(lastOp.result.warnings) <= 1

----------------------------------------------------------------------------

\* C25 (the claim as stated): a loadCSVData call for a source that is made
\* right after clearCache of that source is not served from the cache,
\* whatever cacheKey it uses: it goes on to the network.
C25_ClearForcesRefetch ==
  [][(/\ lastOp.op = "clearCache"
      /\ IsStart(lastOp')
      /\ lastOp'.arg = lastOp.arg
      /\ lastOp'.outcome # "pending")
       => ~lastOp'.call.hit]_vars

----------------------------------------------------------------------------

\* C26 (the claim as stated): after clearCache of a source during a load of
\* that source, a step of the load that was in flight (its fetch settling,
\* its body arriving, its backoff ending) leaves the cache as the clear left
\* it and the state of the source idle.
C26_ClearNotUndone ==
  [][(/\ lastOp.op = "clearCache"
      /\ lastOp'.op = "load"
      /\ lastOp'.step # "start"
      /\ lastOp'.arg = lastOp.arg)
       => /\ dataCache' = dataCache
          /\ lastOp.arg \notin DOMAIN dataCache'
          /\ getLoadingState(loadingStates', lastOp.arg) = IdleState]_vars

----------------------------------------------------------------------------

\* C27 (the claim as stated): with the default cacheKey, in every state
\* that concurrent loads, clearCache and clearAllCaches can reach, a source
\* has a cache entry exactly when isDataLoaded holds for it.
C27_CacheAgreesWithState ==
  \A s \in Sources :
    s \in DOMAIN dataCache <=> isDataLoaded(loadingStates, s)

----------------------------------------------------------------------------

\* C28: clearAllCaches empties the cache and leaves every source reading as
\* the idle default, keeps every subscription and calls no listener; the
\* state change that follows it is delivered to every listener that was
\* subscribed to its source before the clear.
C28_ClearAllSilent ==
  [][/\ lastOp'.op = "clearAllCaches" =>
          /\ dataCache' = EmptyMap
          /\ \A s \in Sources :
               /\ getLoadingState(loadingStates', s) = IdleState
               /\ ~isDataLoaded(loadingStates', s)
          /\ listeners' = listeners
          /\ unsubs' = unsubs
          /\ inflight' = inflight
          /\ published' = <<>>
     /\ (lastOp.op = "clearAllCaches" /\ published' # <<>>) =>
          /\ Len(published') = 1
          /\ published'[1].called = FnsOf(listeners, published'[1].src)
          /\ published'[1].state =
               getLoadingState(loadingStates', published'[1].src)]_vars

\* C28 witness: clearAllCaches ran while a load of s1 was reading its body
\* and s1 had a subscriber: s1 reads idle, the subscriber heard nothing and
\* is still subscribed
C28_Witness ==
  /\ lastOp.op = "clearAllCaches"
  /\ published = <<>>
  /\ loadingStates = EmptyMap
  /\ dataCache = EmptyMap
  /\ FnsOf(listeners, "s1") = <<Plain>>
  /\ \E i \in 1..MaxInflight :
       inflight[i].pc = "text" /\ inflight[i].src = "s1"

----------------------------------------------------------------------------

\* C24 (the claim as stated): with timers that fire, a call never waits on
\* the network for good: the wait of an attempt for the body of its
\* response ends, by the body arriving or by the attempt's deadline, so that
\* the call goes on to return.
C24_BodyWaitEnds ==
  \A i \in 1..MaxInflight :
    (inflight[i].pc = "text") ~> (inflight[i].pc # "text")

----------------------------------------------------------------------------

\* the dataset loader has just completed with the empty data of a load
\* whose attempts all failed
FailedDataset(op) ==
  /\ op.op = "assigned"
  /\ op.result.data = EmptyData
  /\ op.result.errors # <<>>

\* the step is a call of the dataset loader of dataset
IsDatasetCall(op, dataset) ==
  /\ op.arg = dataset
  /\ op.op = "dataset" \/ IsStart(op)

\* C30 (the claim as stated): a dataset loader that is called after a call
\* of it has completed with all retries exhausted attempts the load again:
\* it calls the manager, which issues a fetch, and does not return the empty
\* result of the failed load from the module-level cache.
C30_FailedLoadRetried ==
  [][(FailedDataset(lastOp) /\ IsDatasetCall(lastOp', lastOp.arg))
       => /\ IsStart(lastOp')
          /\ lastOp'.outcome = "pending"]_vars

====
